---- MODULE Spec2Model ----
(***************************************************************************)
(* Arch indexer (src/src/index.js): the sync orchestrator syncBlocks, the  *)
(* block processor processBlock, the persistence writer storeBlock and the *)
(* startup callback, as state machines over the blocks and transactions    *)
(* tables.                                                                 *)
(*                                                                         *)
(* Spec        one process run from an empty store (startup, syncBlocks    *)
(*             rounds, processBlock calls; storeBlock is one step here).   *)
(* SpecRestart Spec plus the process being stopped and started again.      *)
(* SpecStore   concurrent storeBlock invocations, statement by statement,  *)
(*             against a store with transactions and row locks.            *)
(* SpecLive    Spec under fair scheduling, with failures that stop.        *)
(* SpecStartup the app.listen callback with connectWithRetry, step by step.*)
(* SpecStatus  Spec plus GET /api/sync-status requests.                    *)
(* SpecTracker the averageBlockTime update of processBlock; the durations  *)
(*             of the calls are followed here only.                        *)
(* SpecPool    startup followed by storeBlock invocations: the clients     *)
(*             checked out of the pool.                                    *)
(***************************************************************************)
EXTENDS Integers, Sequences, FiniteSets, TLC

\* ------------------------------------------------------------------ bounds
\* Highest chain height getBlockCount may return in the model.
MaxChain == 4
\* BATCH_SIZE and CONCURRENT_BATCHES as the model runs them (scaled down from
\* the source's 100 and 5 so that a round has a checkable number of tasks).
ModelBatchSize == 2
ModelConcurrentBatches == 2
\* storeBlock's batchSize as the model runs it (scaled down from 50).
ModelSubBatch == 2
\* Transaction ids 1..MaxTx; a block lists none or all of them.
MaxTx == 3
\* Heights 0..MaxStoreHeight are the ones stored by the invocations of SpecStore.
MaxStoreHeight == 1
\* processBlock calls SpecTracker follows.
MaxSamples == 4

\* ------------------------------------------------------- program constants
BATCH_SIZE == 100
CONCURRENT_BATCHES == 5
MAX_RETRIES == 10
\* max of the Pool options.
PoolMax == 20

Heights == 0..MaxChain
Null == -1

\* The concurrent storeBlock invocations SpecStore follows.
Calls == {"a", "b"}
StoreHeights == 0..MaxStoreHeight
TxIds == 1..MaxTx
\* The node answers one ingestion from one version of the chain: the version
\* is the block's hash, and it fixes the status getProcessedTransaction
\* reports for the block's transactions.
Versions == {1, 2}
RemoteStatus(version) == IF version = 1 THEN "Processing" ELSE "Processed"
\* Values of tx.status the mapping to the stored status is evaluated on.
RemoteStatusValues == {"Processing", "Processed", "Failed", "processing", ""}
\* block.transactions as served by the node: none, or every id in order.
TxLists == {<<>>, [k \in 1..MaxTx |-> k]}
NodeBlocks ==
  [height : StoreHeights, hash : Versions, transactions : TxLists]

VARIABLES
  pc,                  \* where the orchestrator / startup callback is suspended
  currentBlockHeight,  \* let currentBlockHeight (the frontier)
  latestBlockHeight,   \* const latestBlockHeight of the running syncBlocks call
  batchPromises,       \* windows of the round launched last, in launch order
  tasks,               \* processBlock promises the round awaits: height -> state
  stragglers,          \* heights whose processBlock call of an abandoned round is still running
  timerDelay,          \* delay of the armed setTimeout(syncBlocks, delay), 0 if none
  blocks,              \* committed rows of table blocks
  transactions,        \* committed rows of table transactions
  sb,                  \* storeBlock invocations (SpecStore)
  lastBlock,           \* history: per height, the hash of the last committed ingestion
  lastTx,              \* history: per txid, height and remote status of the last committed ingestion
  isReady,             \* const isReady of the syncBlocks call made last ("unset" until the await returns)
  armedTimers,         \* number of pending setTimeout(syncBlocks, ...) timers
  activeSyncs,         \* number of syncBlocks calls that have not returned
  healthy,             \* SpecLive: the node and the store have stopped failing
  retries,             \* let retries of connectWithRetry
  initSteps,           \* startup steps completed so far, in order (SpecStartup)
  statusResponse,      \* what the last GET /api/sync-status request was answered with
  averageBlockTime,    \* let averageBlockTime, as the fraction num / 10^exp
  samples,             \* history: per settled processBlock call, its duration, or Null if it threw
  checkedOut           \* clients checked out of the pool (pool.connect() resolved, not yet released)

varsSync == <<pc, currentBlockHeight, latestBlockHeight, batchPromises, tasks, stragglers, timerDelay>>
varsDb == <<blocks, transactions>>
varsStore == <<sb, lastBlock, lastTx>>
varsLoop == <<isReady, armedTimers, activeSyncs>>
varsAux == <<healthy, retries, initSteps, statusResponse, averageBlockTime, samples>>
vars == <<pc, currentBlockHeight, latestBlockHeight, batchPromises, tasks, stragglers,
          timerDelay, blocks, transactions, sb, lastBlock, lastTx,
          isReady, armedTimers, activeSyncs,
          healthy, retries, initSteps, statusResponse, averageBlockTime, samples,
          checkedOut>>

Min(a, b) == IF a <= b THEN a ELSE b
MaxOf(S) == CHOOSE x \in S : \A y \in S : y <= x
Range(s) == {s[k] : k \in DOMAIN s}

\* ---------------------------------------------------------- the two tables
\* Variant: ON CONFLICT (height) DO NOTHING.
InsertBlockDoNothing(table, row) ==
  IF \E r \in table : r.height = row.height THEN table ELSE table \cup {row}

\* INSERT ... ON CONFLICT (height) DO UPDATE SET hash = EXCLUDED.hash, ...
UpsertBlock(table, row) == {r \in table : r.height # row.height} \cup {row}

\* INSERT ... ON CONFLICT (txid) DO UPDATE SET block_height = EXCLUDED.block_height, ...
UpsertTx(table, row) == {r \in table : r.txid # row.txid} \cup {row}

HasBlock(table, h) == \E r \in table : r.height = h

\* Variant: the two stored values exchanged.
StoredStatusInverted(remote) == IF remote = "Processing" THEN 1 ELSE 0

\* tx.status === 'Processing' ? 0 : 1
StoredStatus(remote) == IF remote = "Processing" THEN 0 ELSE 1

BlockRow(block) == [height |-> block.height, hash |-> block.hash]
TxRow(txId, block, remote) ==
  [txid |-> txId, block_height |-> block.height, status |-> StoredStatus(remote)]

\* SELECT MAX(height) as max_height FROM blocks: NULL on an empty table.
MaxHeight(table) == IF table = {} THEN Null ELSE MaxOf({r.height : r \in table})

\* Variant: the frontier is taken one past the persisted maximum.
PersistedFrontierPlusOne(table) ==
  IF table = {} THEN 0 ELSE MaxHeight(table) + 1

\* result.rows[0].max_height || 0
PersistedFrontier(table) ==
  LET max_height == MaxHeight(table)
  IN IF max_height = Null \/ max_height = 0 THEN 0 ELSE max_height

\* ------------------------------------------------------------- syncBlocks
\* Variant: batchEnd without the Math.min clamp to the chain height.
RECURSIVE LaunchWindowsNoClamp(_, _, _, _, _)
LaunchWindowsNoClamp(i, f, H, B, C) ==
  IF i >= C THEN <<>>
  ELSE LET batchStart == f + (i * B)
       IN IF batchStart > H THEN <<>>
          ELSE <<[batchStart |-> batchStart, batchEnd |-> batchStart + B - 1]>>
               \o LaunchWindowsNoClamp(i + 1, f, H, B, C)

\* The for loop over i that builds batchPromises: one window per i, stopping
\* at CONCURRENT_BATCHES or at the first batchStart beyond the chain height.
RECURSIVE LaunchWindows(_, _, _, _, _)
LaunchWindows(i, f, H, B, C) ==
  IF i >= C THEN <<>>
  ELSE LET batchStart == f + (i * B)
       IN IF batchStart > H THEN <<>>
          ELSE <<[batchStart |-> batchStart, batchEnd |-> Min(batchStart + B - 1, H)]>>
               \o LaunchWindows(i + 1, f, H, B, C)

\* The heights the inner for loop passes to processBlock.
WindowHeights(w) == w.batchStart .. w.batchEnd
LaunchedHeights(ws) == UNION {WindowHeights(ws[k]) : k \in DOMAIN ws}

\* Variant: Promise.allSettled, fulfilled once every promise has settled.
RoundSettled(t) == \A h \in DOMAIN t : t[h] # "run"

\* Promise.all over the round's promises: fulfilled when every one is,
\* rejected as soon as one is.
RoundResolved(t) == \A h \in DOMAIN t : t[h] = "ok"
RoundRejected(t) == \E h \in DOMAIN t : t[h] = "failed"

\* Variant: the frontier is set to the highest completed batch end itself.
NextFrontierStuck(ws) == MaxOf({ws[k].batchEnd : k \in DOMAIN ws})

\* Math.max(...completedBatchEnds) + 1
NextFrontier(ws) == MaxOf({ws[k].batchEnd : k \in DOMAIN ws}) + 1

NoTasks == [h \in {} |-> "run"]

\* No GET /api/sync-status request has been answered.
NoResponse ==
  [code |-> 0, currentBlockHeight |-> Null, latestBlockHeight |-> Null, isSynced |-> FALSE]

\* setTimeout(syncBlocks, delay) as the last thing a syncBlocks call does
\* before it returns.
ArmTimer(delay) ==
  /\ pc' = "timer"
  /\ timerDelay' = delay
  /\ armedTimers' = armedTimers + 1
  /\ activeSyncs' = activeSyncs - 1

\* Variant: the two delays of the ternary exchanged.
PollDelaySwapped(cur, H) == IF cur >= H THEN 100 ELSE 1000

\* const delay = currentBlockHeight >= latestBlockHeight ? 1000 : 100
PollDelay(cur, H) == IF cur >= H THEN 1000 ELSE 100

\* The while condition and what runs synchronously after it: either the next
\* round is launched and awaited, or the loop ends and the poll timer is armed.
EnterLoop(cur, H) ==
  IF cur <= H
  THEN /\ pc' = "await"
       /\ batchPromises' = LaunchWindows(0, cur, H, ModelBatchSize, ModelConcurrentBatches)
       /\ tasks' = [h \in LaunchedHeights(batchPromises') |-> "run"]
       /\ timerDelay' = 0
       /\ UNCHANGED <<armedTimers, activeSyncs>>
  ELSE /\ ArmTimer(PollDelay(cur, H))
       /\ UNCHANGED <<batchPromises, tasks>>

\* app.listen callback, success path: connectWithRetry (whose pool.connect()
\* result is kept checked out), initializeDatabase, the max-height query,
\* then syncBlocks() up to its first await.
StartupOk ==
  /\ pc = "startup"
  /\ currentBlockHeight' = PersistedFrontier(blocks)
  /\ pc' = "isNodeReady"
  /\ activeSyncs' = activeSyncs + 1
  /\ UNCHANGED <<isReady, armedTimers>>
  /\ UNCHANGED <<latestBlockHeight, batchPromises, tasks, stragglers, timerDelay>>
  /\ UNCHANGED <<varsDb, varsStore, varsAux>>
  /\ checkedOut' = checkedOut + 1

\* app.listen callback, catch path (or connectWithRetry giving up): process.exit(1).
StartupFail ==
  /\ pc = "startup"
  /\ pc' = "exited"
  /\ UNCHANGED varsLoop
  /\ UNCHANGED <<currentBlockHeight, latestBlockHeight, batchPromises, tasks, stragglers, timerDelay>>
  /\ UNCHANGED <<varsDb, varsStore, varsAux, checkedOut>>

\* Variant: the not-ready branch arms the timer but does not return, so the
\* call goes on to getBlockCount().
NodeNotReadyFallsThrough ==
  /\ pc = "isNodeReady"
  /\ isReady' = "false"
  /\ pc' = "getBlockCount"
  /\ timerDelay' = 5000
  /\ armedTimers' = armedTimers + 1
  /\ UNCHANGED activeSyncs
  /\ UNCHANGED <<currentBlockHeight, latestBlockHeight, batchPromises, tasks, stragglers>>
  /\ UNCHANGED <<varsDb, varsStore, varsAux, checkedOut>>

\* isNodeReady() returned false: re-arm in 5 s and return.
NodeNotReady ==
  /\ pc = "isNodeReady"
  /\ isReady' = "false"
  /\ ArmTimer(5000)
  /\ UNCHANGED <<currentBlockHeight, latestBlockHeight, batchPromises, tasks, stragglers>>
  /\ UNCHANGED <<varsDb, varsStore, varsAux, checkedOut>>

\* isNodeReady() threw: the outer catch re-arms in 5 s.
IsNodeReadyFails ==
  /\ pc = "isNodeReady"
  /\ ArmTimer(5000)
  /\ UNCHANGED isReady
  /\ UNCHANGED <<currentBlockHeight, latestBlockHeight, batchPromises, tasks, stragglers>>
  /\ UNCHANGED <<varsDb, varsStore, varsAux, checkedOut>>

\* isNodeReady() returned true: getBlockCount() is called.
NodeReady ==
  /\ pc = "isNodeReady"
  /\ isReady' = "true"
  /\ pc' = "getBlockCount"
  /\ UNCHANGED <<armedTimers, activeSyncs>>
  /\ UNCHANGED <<currentBlockHeight, latestBlockHeight, batchPromises, tasks, stragglers, timerDelay>>
  /\ UNCHANGED <<varsDb, varsStore, varsAux, checkedOut>>

\* getBlockCount() returned H: the while loop is entered.
GetBlockCountReturns(H) ==
  /\ pc = "getBlockCount"
  /\ latestBlockHeight' = H
  /\ EnterLoop(currentBlockHeight, H)
  /\ UNCHANGED <<currentBlockHeight, stragglers, isReady>>
  /\ UNCHANGED <<varsDb, varsStore, varsAux, checkedOut>>

GetBlockCount == \E H \in Heights : GetBlockCountReturns(H)

\* Variant: the outer catch logs the error and arms no timer.
GetBlockCountFailsSilently ==
  /\ pc = "getBlockCount"
  /\ pc' = "timer"
  /\ activeSyncs' = activeSyncs - 1
  /\ UNCHANGED <<isReady, armedTimers, timerDelay>>
  /\ UNCHANGED <<currentBlockHeight, latestBlockHeight, batchPromises, tasks, stragglers>>
  /\ UNCHANGED <<varsDb, varsStore, varsAux, checkedOut>>

\* getBlockCount() threw: the outer catch re-arms in 5 s.
GetBlockCountFails ==
  /\ pc = "getBlockCount"
  /\ ArmTimer(5000)
  /\ UNCHANGED isReady
  /\ UNCHANGED <<currentBlockHeight, latestBlockHeight, batchPromises, tasks, stragglers>>
  /\ UNCHANGED <<varsDb, varsStore, varsAux, checkedOut>>

\* Variant: getBlockCount() is called again after every round, so the loop
\* condition and the next windows use a fresh chain height.
RoundSucceedsRereads ==
  /\ pc = "await"
  /\ RoundResolved(tasks)
  /\ currentBlockHeight' = NextFrontier(batchPromises)
  /\ \E H \in Heights :
       /\ latestBlockHeight' = H
       /\ EnterLoop(currentBlockHeight', H)
  /\ UNCHANGED <<stragglers, isReady>>
  /\ UNCHANGED <<varsDb, varsStore, varsAux, checkedOut>>

\* await Promise.all(batchPromises) fulfilled: the frontier advances and the
\* loop condition is evaluated again.
RoundSucceeds ==
  /\ pc = "await"
  /\ RoundResolved(tasks)
  /\ currentBlockHeight' = NextFrontier(batchPromises)
  /\ EnterLoop(currentBlockHeight', latestBlockHeight)
  /\ UNCHANGED <<latestBlockHeight, stragglers, isReady>>
  /\ UNCHANGED <<varsDb, varsStore, varsAux, checkedOut>>

\* Variant: the catch advances the frontier past the leading windows whose
\* calls all resolved before sleeping.
RoundFailsAdvance ==
  /\ pc = "await"
  /\ RoundRejected(tasks)
  /\ pc' = "sleep"
  /\ stragglers' = stragglers \cup {h \in DOMAIN tasks : tasks[h] = "run"}
  /\ tasks' = NoTasks
  /\ currentBlockHeight' =
       LET done == {k \in DOMAIN batchPromises :
                      \A j \in 1..k : \A h \in WindowHeights(batchPromises[j]) : tasks[h] = "ok"}
       IN IF done = {} THEN currentBlockHeight ELSE batchPromises[MaxOf(done)].batchEnd + 1
  /\ UNCHANGED <<latestBlockHeight, batchPromises, timerDelay, varsLoop>>
  /\ UNCHANGED <<varsDb, varsStore, varsAux, checkedOut>>

\* await Promise.all(batchPromises) rejected: the catch starts the 2 s sleep.
\* The calls of the round that have not settled keep running, unawaited.
RoundFails ==
  /\ pc = "await"
  /\ RoundRejected(tasks)
  /\ pc' = "sleep"
  /\ stragglers' = stragglers \cup {h \in DOMAIN tasks : tasks[h] = "run"}
  /\ tasks' = NoTasks
  /\ UNCHANGED <<currentBlockHeight, latestBlockHeight, batchPromises, timerDelay, varsLoop>>
  /\ UNCHANGED <<varsDb, varsStore, varsAux, checkedOut>>

\* The 2 s sleep ends: continue, i.e. the loop condition is evaluated again.
SleepDone ==
  /\ pc = "sleep"
  /\ EnterLoop(currentBlockHeight, latestBlockHeight)
  /\ UNCHANGED <<currentBlockHeight, latestBlockHeight, stragglers, isReady>>
  /\ UNCHANGED <<varsDb, varsStore, varsAux, checkedOut>>

\* The armed timer fires: syncBlocks runs up to await isNodeReady().
TimerFires ==
  /\ pc = "timer"
  /\ pc' = "isNodeReady"
  /\ timerDelay' = 0
  /\ isReady' = "unset"
  /\ armedTimers' = armedTimers - 1
  /\ activeSyncs' = activeSyncs + 1
  /\ UNCHANGED <<currentBlockHeight, latestBlockHeight, batchPromises, tasks, stragglers>>
  /\ UNCHANGED <<varsDb, varsStore, varsAux, checkedOut>>

\* ----------------------------------------------------------- processBlock
\* The block the node serves at a height (Spec: one version, no transactions).
NodeBlock(h) == [height |-> h, hash |-> 1, transactions |-> <<>>]

\* storeBlock(block) as one step: the rows its COMMIT makes visible.
StoreBlockCommitted(block) ==
  /\ blocks' = UpsertBlock(blocks, BlockRow(block))
  /\ UNCHANGED transactions

\* processBlock(height) of the awaited round resolves: getBlockHash, getBlock
\* and storeBlock all succeeded.
ProcessBlockSucceeds(h) ==
  /\ h \in DOMAIN tasks
  /\ tasks[h] = "run"
  /\ StoreBlockCommitted(NodeBlock(h))
  /\ tasks' = [tasks EXCEPT ![h] = "ok"]
  /\ UNCHANGED <<pc, currentBlockHeight, latestBlockHeight, batchPromises, stragglers, timerDelay, varsLoop>>
  /\ UNCHANGED <<varsStore, varsAux, checkedOut>>

\* Variant: the catch logs the error and does not rethrow it.
ProcessBlockSwallows(h) ==
  /\ h \in DOMAIN tasks
  /\ tasks[h] = "run"
  /\ tasks' = [tasks EXCEPT ![h] = "ok"]
  /\ UNCHANGED <<pc, currentBlockHeight, latestBlockHeight, batchPromises, stragglers, timerDelay, varsLoop>>
  /\ UNCHANGED <<varsDb, varsStore, varsAux, checkedOut>>

\* processBlock(height) of the awaited round rejects: a fetch or storeBlock
\* threw (storeBlock rolled back), the catch rethrows.
ProcessBlockFails(h) ==
  /\ h \in DOMAIN tasks
  /\ tasks[h] = "run"
  /\ tasks' = [tasks EXCEPT ![h] = "failed"]
  /\ UNCHANGED <<pc, currentBlockHeight, latestBlockHeight, batchPromises, stragglers, timerDelay, varsLoop>>
  /\ UNCHANGED <<varsDb, varsStore, varsAux, checkedOut>>

\* A processBlock call left over from an abandoned round resolves.
StragglerSucceeds(h) ==
  /\ h \in stragglers
  /\ StoreBlockCommitted(NodeBlock(h))
  /\ stragglers' = stragglers \ {h}
  /\ UNCHANGED <<pc, currentBlockHeight, latestBlockHeight, batchPromises, tasks, timerDelay, varsLoop>>
  /\ UNCHANGED <<varsStore, varsAux, checkedOut>>

\* A processBlock call left over from an abandoned round rejects.
StragglerFails(h) ==
  /\ h \in stragglers
  /\ stragglers' = stragglers \ {h}
  /\ UNCHANGED <<pc, currentBlockHeight, latestBlockHeight, batchPromises, tasks, timerDelay, varsLoop>>
  /\ UNCHANGED <<varsDb, varsStore, varsAux, checkedOut>>

\* The process is stopped (at any point) and started again: module state is
\* re-initialised, every pending call is gone, the database is kept.
Restart ==
  /\ pc' = "startup"
  /\ currentBlockHeight' = 0
  /\ latestBlockHeight' = 0
  /\ batchPromises' = <<>>
  /\ tasks' = NoTasks
  /\ stragglers' = {}
  /\ timerDelay' = 0
  /\ isReady' = "unset"
  /\ armedTimers' = 0
  /\ activeSyncs' = 0
  /\ UNCHANGED <<varsDb, varsStore, varsAux>>
  /\ checkedOut' = 0

\* ================================================================ claims
Running == {h \in DOMAIN tasks : tasks[h] = "run"}
InFlight == Cardinality(Running) + Cardinality(stragglers)
StartupStep == pc = "startup" /\ pc' = "isNodeReady"

\* C1: the frontier currentBlockHeight never decreases, and a step changes it
\* only when the orchestrator is awaiting a round whose every launched window,
\* hence every processBlock call, has succeeded.
C1_FrontierMonotone ==
  [][/\ currentBlockHeight' >= currentBlockHeight
     /\ currentBlockHeight' # currentBlockHeight =>
          /\ pc = "await"
          /\ \A k \in DOMAIN batchPromises :
               \A h \in WindowHeights(batchPromises[k]) :
                 h \in DOMAIN tasks /\ tasks[h] = "ok"]_vars

\* A round failed earlier (calls of it still run), later rounds advanced the
\* frontier, and the chain height read last is below the frontier.
C1_Witness ==
  /\ currentBlockHeight > latestBlockHeight + 1
  /\ stragglers # {}

\* C2: in a run started from an empty store with frontier 0, every height
\* below currentBlockHeight has a committed Block row.
C2_FrontierIngested ==
  \A h \in 0..(currentBlockHeight - 1) : HasBlock(blocks, h)

\* The frontier is above 0; in the round just failed the lower window lost a
\* height while the higher window committed one, and the frontier stayed.
C2_Witness ==
  /\ pc = "sleep"
  /\ currentBlockHeight > 0
  /\ Len(batchPromises) > 1
  /\ ~HasBlock(blocks, batchPromises[1].batchStart)
  /\ HasBlock(blocks, batchPromises[Len(batchPromises)].batchEnd)

\* C3: a round in which a processBlock call failed leaves currentBlockHeight
\* unchanged and ends in the 2 s sleep, and the round launched after the sleep
\* has the same frontier, the same chain height and the same windows.
C3_RetrySameRound ==
  [][/\ (pc = "await" /\ RoundRejected(tasks)) =>
          /\ currentBlockHeight' = currentBlockHeight
          /\ pc' \in {"await", "sleep"}
     /\ (pc = "await" /\ pc' = "sleep") =>
          /\ RoundRejected(tasks)
          /\ latestBlockHeight' = latestBlockHeight
          /\ batchPromises' = batchPromises
     /\ pc = "sleep" =>
          /\ currentBlockHeight' = currentBlockHeight
          /\ latestBlockHeight' = latestBlockHeight
          /\ pc' \in {"sleep", "await"}
          /\ pc' = "await" =>
               /\ batchPromises' = batchPromises
               /\ DOMAIN tasks' = LaunchedHeights(batchPromises)
               /\ \A h \in DOMAIN tasks' : tasks'[h] = "run"]_vars

\* A retried round of two windows is being awaited while calls of the failed
\* attempt are still running.
C3_Witness ==
  /\ pc = "await"
  /\ stragglers # {}
  /\ Len(batchPromises) > 1
  /\ stragglers \subseteq DOMAIN tasks

\* C7: the windows of a round, in closed form.
ClaimWindows(f, H, B, C) ==
  {[batchStart |-> f + i * B, batchEnd |-> Min(f + i * B + B - 1, H)] :
     i \in {j \in 0..(C - 1) : f + j * B <= H}}

\* C7: for frontier f <= H a round launches exactly the windows
\* [f+i*B, min(f+i*B+B-1, H)], i in 0..C-1 with f+i*B <= H: contiguous,
\* disjoint, starting at f, between 1 and C of them, only the last short; a
\* successful round sets the frontier to min(f+B*C, H+1); and the example
\* f=0, H=249, B=100, C=5 gives [0,99],[100,199],[200,249] and frontier 250.
C7_Windows ==
  /\ [](pc = "await" =>
         LET ws == batchPromises
             f == currentBlockHeight
             H == latestBlockHeight
             B == ModelBatchSize
             C == ModelConcurrentBatches
         IN /\ f <= H
            /\ Range(ws) = ClaimWindows(f, H, B, C)
            /\ Len(ws) >= 1 /\ Len(ws) <= C
            /\ ws[1].batchStart = f
            /\ \A k \in 1..(Len(ws) - 1) :
                 /\ ws[k + 1].batchStart = ws[k].batchEnd + 1
                 /\ ws[k].batchEnd - ws[k].batchStart + 1 = B
            /\ ws[Len(ws)].batchEnd - ws[Len(ws)].batchStart + 1 \in 1..B
            /\ DOMAIN tasks = f..Min(f + B * C - 1, H))
  /\ [][(pc = "await" /\ RoundResolved(tasks) /\ stragglers' = stragglers) =>
          currentBlockHeight' =
            Min(currentBlockHeight + ModelBatchSize * ModelConcurrentBatches,
                latestBlockHeight + 1)]_vars
  /\ [](/\ LaunchWindows(0, 0, 249, BATCH_SIZE, CONCURRENT_BATCHES)
             = <<[batchStart |-> 0, batchEnd |-> 99],
                 [batchStart |-> 100, batchEnd |-> 199],
                 [batchStart |-> 200, batchEnd |-> 249]>>
        /\ NextFrontier(LaunchWindows(0, 0, 249, BATCH_SIZE, CONCURRENT_BATCHES)) = 250)

\* A round from a frontier above 0 with a full window followed by a short one.
C7_Witness ==
  /\ pc = "await"
  /\ currentBlockHeight > 0
  /\ Len(batchPromises) = 2
  /\ batchPromises[2].batchEnd - batchPromises[2].batchStart + 1 < ModelBatchSize

\* C8 as stated: startup sets the frontier to the persisted maximum height
\* plus 1, or to 0 when the blocks table is empty.
C8_Original ==
  [][StartupStep =>
       currentBlockHeight' = IF blocks = {} THEN 0 ELSE MaxHeight(blocks) + 1]_vars

\* C8 amended: startup sets the frontier to the persisted maximum height
\* itself, or to 0 when the blocks table is empty, before syncBlocks runs.
C8_StartupFrontier ==
  [][StartupStep =>
       currentBlockHeight' = IF blocks = {} THEN 0 ELSE MaxHeight(blocks)]_vars

\* A restarted process has just called syncBlocks with a frontier read from a
\* store whose highest block is above 0.
C8_Witness ==
  /\ pc = "isNodeReady"
  /\ batchPromises = <<>>
  /\ MaxHeight(blocks) > 0
  /\ currentBlockHeight = MaxHeight(blocks)

\* C9 as stated: whenever the process is stopped and started again, every
\* height below the frontier re-derived from max(Block.height) has a
\* committed Block row.
C9_Original ==
  [][StartupStep =>
       \A h \in 0..(currentBlockHeight' - 1) : HasBlock(blocks, h)]_vars

\* C10 as stated: the orchestrator leaves the await of a round only when no
\* processBlock call is in flight, no call of an earlier round runs beside a
\* later round, and at most BATCH_SIZE * CONCURRENT_BATCHES calls are in flight.
C10_Original ==
  /\ pc # "await" => InFlight = 0
  /\ stragglers = {}
  /\ InFlight <= ModelBatchSize * ModelConcurrentBatches

\* The orchestrator step of a syncBlocks call (not a processBlock call settling).
SyncStep == pc' # pc

\* C11: when isNodeReady() returns false, that step launches no processBlock
\* call, leaves the frontier, the chain height read last and the store as
\* they are, and arms the timer for 5000 ms; the timer armed this way leads
\* to isNodeReady() being asked again, the chain height is read and rounds
\* run only in a call whose isNodeReady() returned true, and a true answer
\* leads on to getBlockCount().
C11_NotReadyWaits ==
  /\ [][(pc = "isNodeReady" /\ isReady' = "false")
          => /\ pc' = "timer"
             /\ timerDelay' = 5000
             /\ tasks' = tasks
             /\ stragglers' = stragglers
             /\ batchPromises' = batchPromises
             /\ currentBlockHeight' = currentBlockHeight
             /\ latestBlockHeight' = latestBlockHeight
             /\ blocks' = blocks]_vars
  /\ [][(isReady = "false" /\ SyncStep) => (pc = "timer" /\ pc' = "isNodeReady")]_vars
  /\ [][(pc = "isNodeReady" /\ isReady' = "true") => pc' = "getBlockCount"]_vars
  /\ [](pc \in {"getBlockCount", "await", "sleep"} => isReady = "true")
  /\ [](isReady = "false" => (pc = "timer" /\ timerDelay = 5000 /\ Running = {}))

C11_Witness ==
  /\ isReady = "false"
  /\ pc = "timer"
  /\ timerDelay = 5000
  /\ currentBlockHeight > 0

\* C12: from the moment syncBlocks has been started, the number of syncBlocks
\* calls that have not returned plus the number of armed syncBlocks timers is
\* exactly one, a timer being armed exactly while no call is executing;
\* before the start and after process.exit there is none.
C12_OneOrchestrator ==
  /\ armedTimers \in {0, 1}
  /\ activeSyncs \in {0, 1}
  /\ pc \in {"startup", "exited"} => (armedTimers = 0 /\ activeSyncs = 0)
  /\ pc \notin {"startup", "exited"} => armedTimers + activeSyncs = 1
  /\ (pc = "timer") = (armedTimers = 1)
  /\ (timerDelay # 0) = (armedTimers = 1)

C12_Witness ==
  /\ pc = "timer"
  /\ armedTimers = 1
  /\ activeSyncs = 0
  /\ isReady = "true"
  /\ timerDelay = 5000
  /\ stragglers # {}

\* C14 as stated: a round that ends with the frontier above the chain height
\* is followed by a 1000 ms delay, and one that ends with the frontier still
\* at or below the chain height by a 100 ms delay.
C14_Original ==
  [][(pc = "await" /\ currentBlockHeight' # currentBlockHeight)
       => /\ pc' = "timer"
          /\ currentBlockHeight' > latestBlockHeight => timerDelay' = 1000
          /\ currentBlockHeight' <= latestBlockHeight => timerDelay' = 100]_vars

\* C14, amended: the poll timer is armed at the end of a pass only with the
\* frontier above the chain height read by that pass, and then always for
\* 1000 ms; while the frontier is at or below the chain height the next round
\* is launched with no timer at all, and no timer is ever armed for 100 ms.
C14_PollDelay ==
  /\ [][(pc \in {"getBlockCount", "await", "sleep"} /\ pc' = "timer" /\ isReady = "true"
           /\ ~(pc = "getBlockCount" /\ timerDelay' = 5000))
          => /\ currentBlockHeight' > latestBlockHeight'
             /\ timerDelay' = 1000]_vars
  /\ [][(pc = "await" /\ currentBlockHeight' # currentBlockHeight
           /\ currentBlockHeight' <= latestBlockHeight)
          => (pc' = "await" /\ timerDelay' = 0)]_vars
  /\ [](timerDelay \in {0, 1000, 5000})

C14_Witness ==
  /\ pc = "timer"
  /\ timerDelay = 1000
  /\ currentBlockHeight = latestBlockHeight + 1
  /\ HasBlock(blocks, latestBlockHeight)

\* A step that launches a round: every task is new and running.
LaunchStep ==
  /\ tasks' # tasks
  /\ DOMAIN tasks' # {}
  /\ \A h \in DOMAIN tasks' : tasks'[h] = "run"

\* C21: every height a round passes to processBlock lies between the
\* frontier and the chain height the running syncBlocks call read; while a
\* round is awaited or retried the frontier is at most that chain height,
\* and a round that succeeds moves it up to at most that chain height plus
\* one; the chain height changes only in the step in which getBlockCount()
\* returns, never between the rounds of a pass.
C21_ChainHeightBound ==
  /\ [][LaunchStep =>
          /\ pc' = "await"
          /\ \A h \in DOMAIN tasks' :
               currentBlockHeight' <= h /\ h <= latestBlockHeight']_vars
  /\ [](pc \in {"await", "sleep"} => currentBlockHeight <= latestBlockHeight)
  /\ [](pc = "await" => \A h \in DOMAIN tasks : h <= latestBlockHeight)
  /\ [][(pc = "await" /\ currentBlockHeight' # currentBlockHeight)
          => /\ currentBlockHeight' > currentBlockHeight
             /\ currentBlockHeight' <= latestBlockHeight + 1]_vars
  /\ [][latestBlockHeight' # latestBlockHeight => pc = "getBlockCount"]_vars
  /\ [][(pc \in {"await", "sleep"} /\ pc' \in {"await", "sleep"})
          => latestBlockHeight' = latestBlockHeight]_vars

\* The last round of a pass of more than one round is awaited: it covers
\* the heights from the frontier to the chain height read when the pass began.
C21_Witness ==
  /\ pc = "await"
  /\ currentBlockHeight = ModelBatchSize * ModelConcurrentBatches
  /\ latestBlockHeight = MaxChain
  /\ DOMAIN tasks = currentBlockHeight..latestBlockHeight
  /\ Running # {}

NoInvocations == <<>>

InitSync ==
  /\ pc = "startup"
  /\ currentBlockHeight = 0
  /\ latestBlockHeight = 0
  /\ batchPromises = <<>>
  /\ tasks = NoTasks
  /\ stragglers = {}
  /\ timerDelay = 0
  /\ isReady = "unset"
  /\ armedTimers = 0
  /\ activeSyncs = 0

\* State of the parts a specification does not follow.
InitAux ==
  /\ healthy = FALSE
  /\ retries = 0
  /\ initSteps = <<>>
  /\ statusResponse = NoResponse
  /\ averageBlockTime = [num |-> 0, exp |-> 0]
  /\ samples = <<>>
  /\ checkedOut = 0

Init ==
  /\ InitSync
  /\ InitAux
  /\ blocks = {}
  /\ transactions = {}
  /\ sb = NoInvocations
  /\ lastBlock = <<>>
  /\ lastTx = <<>>

Next ==
  \/ StartupOk
  \/ StartupFail
  \/ NodeNotReady
  \/ IsNodeReadyFails
  \/ NodeReady
  \/ GetBlockCount
  \/ GetBlockCountFails
  \/ RoundSucceeds
  \/ RoundFails
  \/ SleepDone
  \/ TimerFires
  \/ \E h \in Heights : ProcessBlockSucceeds(h)
  \/ \E h \in Heights : ProcessBlockFails(h)
  \/ \E h \in Heights : StragglerSucceeds(h)
  \/ \E h \in Heights : StragglerFails(h)

Spec == Init /\ [][Next]_vars

NextRestart == Next \/ Restart

SpecRestart == Init /\ [][NextRestart]_vars

\* ------------------------------------------------------- progress (SpecLive)
\* The chain heights the node reports in SpecLive: the chain grows once.
LiveHeights == {2, 4}

\* From this step on the node stays ready and every getBlockCount, fetch and
\* store succeeds.
BecomeHealthy ==
  /\ ~healthy
  /\ healthy' = TRUE
  /\ UNCHANGED <<retries, initSteps, statusResponse, averageBlockTime, samples, checkedOut>>
  /\ UNCHANGED <<varsSync, varsLoop, varsDb, varsStore>>

\* The steps in which nothing fails: continuations of the event loop that run
\* once the promise or timer they wait for has settled.
LiveGood ==
  \/ StartupOk
  \/ NodeReady
  \/ \E H \in LiveHeights : GetBlockCountReturns(H)
  \/ RoundSucceeds
  \/ RoundFails
  \/ SleepDone
  \/ TimerFires
  \/ \E h \in Heights : ProcessBlockSucceeds(h)
  \/ \E h \in Heights : StragglerSucceeds(h)

\* The steps in which the startup, the node or the store fails.
LiveFailure ==
  \/ StartupFail
  \/ NodeNotReady
  \/ IsNodeReadyFails
  \/ GetBlockCountFails
  \/ \E h \in Heights : ProcessBlockFails(h)
  \/ \E h \in Heights : StragglerFails(h)

NextLive ==
  \/ LiveGood
  \/ ~healthy /\ LiveFailure
  \/ BecomeHealthy

\* Fair scheduling: a continuation that stays runnable is eventually run, a
\* pending call that can only succeed eventually resolves.
SpecLive == Init /\ [][NextLive]_vars /\ WF_vars(LiveGood)

\* C13: no failure of a running orchestrator ends the process, and under fair
\* scheduling, once the node stays ready and every fetch and store succeeds,
\* a pass that is catching up to the chain height H it read (however many of
\* its rounds failed before) eventually brings the frontier to H + 1.
C13_EventuallyCaughtUp ==
  /\ [][pc' = "exited" => pc \in {"startup", "exited"}]_vars
  /\ \A H \in LiveHeights :
       (healthy /\ latestBlockHeight = H /\ pc \in {"await", "sleep"})
         ~> (currentBlockHeight = H + 1)

C13_Witness ==
  /\ healthy
  /\ pc = "timer"
  /\ latestBlockHeight = 4
  /\ currentBlockHeight = 5
  /\ stragglers # {}

\* ------------------------------------------ GET /api/sync-status (SpecStatus)
\* The handler's getBlockCount() returned H: res.json with the frontier as it
\* is now, the chain height and isSynced (the percentage and the times are
\* left out).
SyncStatusOk(H) ==
  /\ pc # "exited"
  /\ statusResponse' = [code |-> 200,
                        currentBlockHeight |-> currentBlockHeight,
                        latestBlockHeight |-> H,
                        isSynced |-> currentBlockHeight >= H]
  /\ UNCHANGED <<healthy, retries, initSteps, averageBlockTime, samples, checkedOut>>
  /\ UNCHANGED <<varsSync, varsLoop, varsDb, varsStore>>

\* The handler's getBlockCount() threw (the node cannot be reached): the
\* catch answers res.status(500).json({ error: 'Internal server error' }).
SyncStatusFails ==
  /\ pc # "exited"
  /\ statusResponse' = [NoResponse EXCEPT !.code = 500]
  /\ UNCHANGED <<healthy, retries, initSteps, averageBlockTime, samples, checkedOut>>
  /\ UNCHANGED <<varsSync, varsLoop, varsDb, varsStore>>

NextStatus ==
  \/ LiveGood
  \/ LiveFailure
  \/ \E H \in LiveHeights : SyncStatusOk(H)
  \/ SyncStatusFails

SpecStatus == Init /\ [][NextStatus]_vars

\* C17 as stated: whatever fails, every answer of the sync-status endpoint
\* is a success that carries a frontier the orchestrator has reached; no
\* answer is an error.
C17_Original ==
  statusResponse # NoResponse =>
    /\ statusResponse.code = 200
    /\ statusResponse.currentBlockHeight \in 0..currentBlockHeight

\* ------------------------------------- the progress tracker (SpecTracker)
\* Date.now() - blockStartTime of a call, in ms.
Durations == {0, 100, 200}

\* averageBlockTime === 0 ? blockTime : (averageBlockTime * 0.9 + blockTime * 0.1)
\* on the fraction num / 10^exp.
TrackerUpdate(avg, blockTime) ==
  IF avg.num = 0
  THEN [num |-> blockTime, exp |-> 0]
  ELSE [num |-> 9 * avg.num + blockTime * 10^avg.exp, exp |-> avg.exp + 1]

\* processBlock resolved after blockTime ms: the statements after
\* await storeBlock(block) update the tracker.
RecordBlockTime(blockTime) ==
  /\ Len(samples) < MaxSamples
  /\ averageBlockTime' = TrackerUpdate(averageBlockTime, blockTime)
  /\ samples' = Append(samples, blockTime)
  /\ UNCHANGED <<healthy, retries, initSteps, statusResponse, checkedOut>>
  /\ UNCHANGED <<varsSync, varsLoop, varsDb, varsStore>>

\* processBlock threw before reaching them: the catch logs and rethrows.
SkipBlockTime ==
  /\ Len(samples) < MaxSamples
  /\ samples' = Append(samples, Null)
  /\ UNCHANGED <<healthy, retries, initSteps, statusResponse, averageBlockTime, checkedOut>>
  /\ UNCHANGED <<varsSync, varsLoop, varsDb, varsStore>>

NextTracker ==
  \/ \E blockTime \in Durations : RecordBlockTime(blockTime)
  \/ SkipBlockTime

SpecTracker == Init /\ [][NextTracker]_vars

\* The exponential moving average of the claim: seeded with the first
\* duration, then avg(k+1) = 0.9 * avg(k) + 0.1 * d(k+1).
RECURSIVE ClaimEMA(_)
ClaimEMA(ds) ==
  IF Len(ds) = 1
  THEN [num |-> ds[1], exp |-> 0]
  ELSE LET avg == ClaimEMA(SubSeq(ds, 1, Len(ds) - 1))
       IN [num |-> 9 * avg.num + ds[Len(ds)] * 10^avg.exp, exp |-> avg.exp + 1]

\* Equality of two fractions num / 10^exp.
SameValue(a, b) == a.num * 10^b.exp = b.num * 10^a.exp

Succeeded(outcomes) == SelectSeq(outcomes, LAMBDA d : d # Null)

\* C18 as stated: calls that threw leave the tracker alone, and after the
\* durations d1..dn of the calls that succeeded averageBlockTime is the
\* moving average seeded with d1, whatever d1 is.
C18_Original ==
  LET ds == Succeeded(samples)
  IN IF ds = <<>>
     THEN averageBlockTime.num = 0
     ELSE SameValue(averageBlockTime, ClaimEMA(ds))

\* ---------------------------------------------------- startup (SpecStartup)
\* The app.listen callback step by step. pc is "connect" while pool.connect()
\* of connectWithRetry is pending, "retrySleep" during the RETRY_DELAY sleep,
\* "initializeDatabase" and "maxHeightQuery" while those awaits are pending.
\* The blocks tables a process can find at startup.
StartStores == {{BlockRow(NodeBlock(h)) : h \in S} : S \in SUBSET Heights}

\* await pool.connect() resolved: connectWithRetry returns without releasing
\* the client it was given, and initializeDatabase(pool) is called.
ConnectWithRetryOk ==
  /\ pc = "connect"
  /\ pc' = "initializeDatabase"
  /\ initSteps' = Append(initSteps, "connect")
  /\ UNCHANGED <<healthy, retries, statusResponse, averageBlockTime, samples>>
  /\ UNCHANGED <<currentBlockHeight, latestBlockHeight, batchPromises, tasks, stragglers, timerDelay>>
  /\ UNCHANGED <<varsLoop, varsDb, varsStore>>
  /\ checkedOut' = checkedOut + 1

\* await pool.connect() rejected: retries++ and the RETRY_DELAY sleep starts.
ConnectWithRetryFails ==
  /\ pc = "connect"
  /\ retries' = retries + 1
  /\ pc' = "retrySleep"
  /\ UNCHANGED <<healthy, initSteps, statusResponse, averageBlockTime, samples, checkedOut>>
  /\ UNCHANGED <<currentBlockHeight, latestBlockHeight, batchPromises, tasks, stragglers, timerDelay>>
  /\ UNCHANGED <<varsLoop, varsDb, varsStore>>

\* Variant: while (retries <= MAX_RETRIES).
RetryDelayDoneOffByOne ==
  /\ pc = "retrySleep"
  /\ pc' = IF retries <= MAX_RETRIES THEN "connect" ELSE "exited"
  /\ UNCHANGED <<currentBlockHeight, latestBlockHeight, batchPromises, tasks, stragglers, timerDelay>>
  /\ UNCHANGED <<varsLoop, varsDb, varsStore, varsAux, checkedOut>>

\* The RETRY_DELAY sleep ends: while (retries < MAX_RETRIES) either connects
\* again or falls out of the loop to process.exit(1).
RetryDelayDone ==
  /\ pc = "retrySleep"
  /\ pc' = IF retries < MAX_RETRIES THEN "connect" ELSE "exited"
  /\ UNCHANGED <<currentBlockHeight, latestBlockHeight, batchPromises, tasks, stragglers, timerDelay>>
  /\ UNCHANGED <<varsLoop, varsDb, varsStore, varsAux, checkedOut>>

\* initializeDatabase(pool) resolved (init.sql ran; the rows of blocks stay as
\* they are): the max-height query is sent.
InitializeDatabaseOk ==
  /\ pc = "initializeDatabase"
  /\ pc' = "maxHeightQuery"
  /\ initSteps' = Append(initSteps, "initializeDatabase")
  /\ UNCHANGED <<healthy, retries, statusResponse, averageBlockTime, samples, checkedOut>>
  /\ UNCHANGED <<currentBlockHeight, latestBlockHeight, batchPromises, tasks, stragglers, timerDelay>>
  /\ UNCHANGED <<varsLoop, varsDb, varsStore>>

\* initializeDatabase(pool) rethrew (readFile or the query failed): the
\* callback's catch calls process.exit(1).
InitializeDatabaseFails ==
  /\ pc = "initializeDatabase"
  /\ pc' = "exited"
  /\ UNCHANGED <<currentBlockHeight, latestBlockHeight, batchPromises, tasks, stragglers, timerDelay>>
  /\ UNCHANGED <<varsLoop, varsDb, varsStore, varsAux, checkedOut>>

\* The max-height query resolved: the frontier is set and syncBlocks() is
\* called, running up to await isNodeReady().
MaxHeightQueryOk ==
  /\ pc = "maxHeightQuery"
  /\ currentBlockHeight' = PersistedFrontier(blocks)
  /\ initSteps' = Append(initSteps, "maxHeightQuery")
  /\ pc' = "isNodeReady"
  /\ activeSyncs' = activeSyncs + 1
  /\ UNCHANGED <<isReady, armedTimers>>
  /\ UNCHANGED <<healthy, retries, statusResponse, averageBlockTime, samples, checkedOut>>
  /\ UNCHANGED <<latestBlockHeight, batchPromises, tasks, stragglers, timerDelay>>
  /\ UNCHANGED <<varsDb, varsStore>>

\* The max-height query rejected: the callback's catch calls process.exit(1).
MaxHeightQueryFails ==
  /\ pc = "maxHeightQuery"
  /\ pc' = "exited"
  /\ UNCHANGED <<currentBlockHeight, latestBlockHeight, batchPromises, tasks, stragglers, timerDelay>>
  /\ UNCHANGED <<varsLoop, varsDb, varsStore, varsAux, checkedOut>>

InitStartup ==
  /\ pc = "connect"
  /\ currentBlockHeight = 0
  /\ latestBlockHeight = 0
  /\ batchPromises = <<>>
  /\ tasks = NoTasks
  /\ stragglers = {}
  /\ timerDelay = 0
  /\ isReady = "unset"
  /\ armedTimers = 0
  /\ activeSyncs = 0
  /\ InitAux
  /\ blocks \in StartStores
  /\ transactions = {}
  /\ sb = NoInvocations
  /\ lastBlock = <<>>
  /\ lastTx = <<>>

NextStartup ==
  \/ ConnectWithRetryOk
  \/ ConnectWithRetryFails
  \/ RetryDelayDone
  \/ InitializeDatabaseOk
  \/ InitializeDatabaseFails
  \/ MaxHeightQueryOk
  \/ MaxHeightQueryFails

SpecStartup == InitStartup /\ [][NextStartup]_vars

\* C15: syncBlocks is running only after the connection, initializeDatabase
\* and the max-height query have completed in that order, with the frontier
\* read from the store; the process exits only after MAX_RETRIES failed
\* connection attempts in a row or a failure of initializeDatabase or of the
\* max-height query, and once exited it stays exited with syncBlocks never
\* started; an attempt is made only while fewer than MAX_RETRIES have
\* failed, and an attempt that succeeds leads on to initializeDatabase.
C15_StartupOrder ==
  /\ [](pc = "isNodeReady"
         => /\ initSteps = <<"connect", "initializeDatabase", "maxHeightQuery">>
            /\ currentBlockHeight = PersistedFrontier(blocks))
  /\ []((activeSyncs = 1) = (pc = "isNodeReady"))
  /\ [](activeSyncs \in {0, 1} /\ armedTimers = 0)
  /\ [][pc = "exited" => pc' = "exited"]_vars
  /\ [][(pc' = "exited" /\ pc # "exited")
          => \/ pc = "retrySleep" /\ retries = MAX_RETRIES /\ initSteps = <<>>
             \/ pc = "initializeDatabase" /\ initSteps = <<"connect">>
             \/ pc = "maxHeightQuery" /\ initSteps = <<"connect", "initializeDatabase">>]_vars
  /\ [](pc = "connect" => retries < MAX_RETRIES)
  /\ [](retries = MAX_RETRIES => pc \in {"retrySleep", "exited"})
  /\ [][(pc = "connect" /\ retries' = retries) => pc' = "initializeDatabase"]_vars

C15_Witness ==
  /\ pc = "isNodeReady"
  /\ retries = MAX_RETRIES - 1
  /\ initSteps = <<"connect", "initializeDatabase", "maxHeightQuery">>
  /\ currentBlockHeight = MaxChain

\* ------------------------------------------------------------- storeBlock
NoBlock == [height |-> Null, hash |-> Null, transactions |-> <<>>]
NoTx == [height |-> Null, status |-> "none"]
\* Besides the locals of storeBlock an invocation records what it did:
\* acquired and released count its pool.connect() results and its
\* client.release() calls, error is what it rejected with, pendingTx the
\* getProcessedTransaction calls in flight, fetchCount and writeCount the
\* calls and the upserts made per transaction id.
NoCall ==
  [pc |-> "idle", block |-> NoBlock, i |-> 0, txResults |-> {},
   wBlocks |-> {}, wTxs |-> {}, fetched |-> {},
   acquired |-> 0, released |-> 0, error |-> "none",
   pendingTx |-> {}, fetchCount |-> [t \in TxIds |-> 0], writeCount |-> [t \in TxIds |-> 0]]
Settled(outcome) == [NoCall EXCEPT !.pc = outcome]

\* finally { client.release() }, after which storeBlock settles.
Release(c, outcome, error) ==
  [Settled(outcome) EXCEPT !.acquired = sb[c].acquired,
                           !.released = sb[c].released + 1,
                           !.error = error]

\* An invocation is inside its database transaction (between BEGIN and the
\* end of COMMIT or ROLLBACK).
InTransaction(c) ==
  sb[c].pc \in {"begin", "insertBlock", "fetchTx", "insertTx", "commit", "rollback"}

\* Row locks: a row written by an open transaction blocks every other writer
\* of that row until the transaction ends.
BlockRowFree(c, h) ==
  \A d \in Calls \ {c} : \A r \in sb[d].wBlocks : r.height # h
TxRowsFree(c, ids) ==
  \A d \in Calls \ {c} : \A r \in sb[d].wTxs : r.txid \notin ids

\* What COMMIT makes visible: every row the transaction wrote, upserted.
RECURSIVE ApplyBlockWrites(_, _)
ApplyBlockWrites(table, W) ==
  IF W = {} THEN table
  ELSE LET w == CHOOSE x \in W : TRUE
       IN ApplyBlockWrites(UpsertBlock(table, w), W \ {w})
RECURSIVE ApplyTxWrites(_, _)
ApplyTxWrites(table, W) ==
  IF W = {} THEN table
  ELSE LET w == CHOOSE x \in W : TRUE
       IN ApplyTxWrites(UpsertTx(table, w), W \ {w})

\* Variant: block.transactions.slice(i), every id from position i on.
SliceToEnd(block, i) ==
  {block.transactions[k] : k \in {j \in DOMAIN block.transactions : j > i}}

\* block.transactions.slice(i, i + batchSize), as a set of ids
Slice(block, i) ==
  {block.transactions[k] :
     k \in {j \in DOMAIN block.transactions : j > i /\ j <= i + ModelSubBatch}}

\* The for loop's condition at index i: the sub-batch at i is sliced and its
\* getProcessedTransaction calls are started, or the loop ends and COMMIT is
\* sent.
LoopAt(s, i) ==
  IF i < Len(s.block.transactions)
  THEN [s EXCEPT !.i = i,
                 !.pc = "fetchTx",
                 !.pendingTx = Slice(s.block, i),
                 !.fetchCount = [t \in TxIds |->
                                   IF t \in Slice(s.block, i) THEN @[t] + 1 ELSE @[t]]]
  ELSE [s EXCEPT !.i = i, !.pc = "commit"]

\* storeBlock(block) is called and suspends at await pool.connect().
StoreBlockCall(c, block) ==
  /\ sb[c].pc \in {"idle", "resolved", "rejected"}
  /\ sb' = [sb EXCEPT ![c] = [NoCall EXCEPT !.pc = "connect", !.block = block]]
  /\ UNCHANGED <<varsLoop, varsAux, checkedOut, varsSync, varsDb, lastBlock, lastTx>>

\* pool.connect() resolved: BEGIN is sent.
ConnectOk(c) ==
  /\ sb[c].pc = "connect"
  /\ sb' = [sb EXCEPT ![c].pc = "begin", ![c].acquired = @ + 1]
  /\ UNCHANGED <<varsLoop, varsAux, varsSync, varsDb, lastBlock, lastTx>>
  /\ checkedOut' = checkedOut + 1

\* pool.connect() rejected (pool exhausted, database down): storeBlock
\* rejects before its try block.
ConnectFail(c) ==
  /\ sb[c].pc = "connect"
  /\ sb' = [sb EXCEPT ![c] = [Settled("rejected") EXCEPT !.error = "connect"]]
  /\ UNCHANGED <<varsLoop, varsAux, checkedOut, varsSync, varsDb, lastBlock, lastTx>>

\* BEGIN done: the block upsert is sent.
BeginOk(c) ==
  /\ sb[c].pc = "begin"
  /\ sb' = [sb EXCEPT ![c].pc = "insertBlock"]
  /\ UNCHANGED <<varsLoop, varsAux, checkedOut, varsSync, varsDb, lastBlock, lastTx>>

\* The block upsert is done (it waits while another open transaction holds
\* the row): the first sub-batch of fetches starts, or COMMIT is sent.
InsertBlockOk(c) ==
  /\ sb[c].pc = "insertBlock"
  /\ BlockRowFree(c, sb[c].block.height)
  /\ sb' = [sb EXCEPT ![c] = LoopAt([sb[c] EXCEPT !.wBlocks = {BlockRow(sb[c].block)}], 0)]
  /\ UNCHANGED <<varsLoop, varsAux, checkedOut, varsSync, varsDb, lastBlock, lastTx>>

\* Promise.all(txPromises) resolved: every getProcessedTransaction of the
\* sub-batch answered; the sub-batch's upserts are sent.
FetchTxOk(c) ==
  /\ sb[c].pc = "fetchTx"
  /\ sb' = [sb EXCEPT ![c].txResults =
                        {[txId |-> t, status |-> RemoteStatus(sb[c].block.hash)] :
                           t \in sb[c].pendingTx},
                      ![c].pendingTx = {},
                      ![c].pc = "insertTx"]
  /\ UNCHANGED <<varsLoop, varsAux, checkedOut, varsSync, varsDb, lastBlock, lastTx>>

\* Variant: the transaction upserts go through the pool, outside the block's
\* transaction, and are visible at once.
InsertTxAutocommit(c) ==
  /\ sb[c].pc = "insertTx"
  /\ TxRowsFree(c, {r.txId : r \in sb[c].txResults})
  /\ transactions' = ApplyTxWrites(transactions,
                       {TxRow(r.txId, sb[c].block, r.status) : r \in sb[c].txResults})
  /\ sb' = [sb EXCEPT ![c] =
             LoopAt([sb[c] EXCEPT !.fetched = @ \cup sb[c].txResults,
                                  !.txResults = {}],
                    sb[c].i + ModelSubBatch)]
  /\ UNCHANGED <<varsLoop, varsAux, checkedOut, varsSync, blocks, lastBlock, lastTx>>

\* Promise.all(queries) resolved: the sub-batch's rows are written (each
\* waits while another open transaction holds its row); i += batchSize, then
\* the next sub-batch's fetches start or COMMIT is sent.
InsertTxOk(c) ==
  /\ sb[c].pc = "insertTx"
  /\ TxRowsFree(c, {r.txId : r \in sb[c].txResults})
  /\ sb' = [sb EXCEPT ![c] =
             LoopAt([sb[c] EXCEPT !.wTxs = @ \cup {TxRow(r.txId, sb[c].block, r.status) :
                                                     r \in sb[c].txResults},
                                  !.writeCount = [t \in TxIds |->
                                                    IF \E r \in sb[c].txResults : r.txId = t
                                                    THEN @[t] + 1 ELSE @[t]],
                                  !.fetched = @ \cup sb[c].txResults,
                                  !.txResults = {}],
                    sb[c].i + ModelSubBatch)]
  /\ UNCHANGED <<varsLoop, varsAux, checkedOut, varsSync, varsDb, lastBlock, lastTx>>

\* COMMIT done: the written rows become visible together; finally releases
\* the client and storeBlock resolves.
CommitOk(c) ==
  /\ sb[c].pc = "commit"
  /\ blocks' = ApplyBlockWrites(blocks, sb[c].wBlocks)
  /\ transactions' = ApplyTxWrites(transactions, sb[c].wTxs)
  /\ lastBlock' = [lastBlock EXCEPT ![sb[c].block.height] = sb[c].block.hash]
  /\ lastTx' = [t \in TxIds |->
                  IF \E r \in sb[c].fetched : r.txId = t
                  THEN [height |-> sb[c].block.height,
                        status |-> (CHOOSE r \in sb[c].fetched : r.txId = t).status]
                  ELSE lastTx[t]]
  /\ sb' = [sb EXCEPT ![c] = Release(c, "resolved", "none")]
  /\ UNCHANGED <<varsLoop, varsAux, varsSync>>
  /\ checkedOut' = checkedOut - 1

\* A statement of the try block fails (BEGIN, the block upsert, a fetch, a
\* transaction upsert or COMMIT): the catch sends ROLLBACK.
StepFails(c) ==
  /\ sb[c].pc \in {"begin", "insertBlock", "fetchTx", "insertTx", "commit"}
  /\ sb' = [sb EXCEPT ![c].pc = "rollback"]
  /\ UNCHANGED <<varsLoop, varsAux, checkedOut, varsSync, varsDb, lastBlock, lastTx>>

\* Variant: the catch sends COMMIT.
RollbackCommits(c) ==
  /\ sb[c].pc = "rollback"
  /\ blocks' = ApplyBlockWrites(blocks, sb[c].wBlocks)
  /\ transactions' = ApplyTxWrites(transactions, sb[c].wTxs)
  /\ sb' = [sb EXCEPT ![c] = Release(c, "rejected", "step")]
  /\ UNCHANGED <<varsLoop, varsAux, varsSync, lastBlock, lastTx>>
  /\ checkedOut' = checkedOut - 1

\* ROLLBACK done: everything the transaction wrote is discarded; finally
\* releases the client and storeBlock rejects with the step's error.
RollbackOk(c) ==
  /\ sb[c].pc = "rollback"
  /\ sb' = [sb EXCEPT ![c] = Release(c, "rejected", "step")]
  /\ UNCHANGED <<varsLoop, varsAux, varsSync, varsDb, lastBlock, lastTx>>
  /\ checkedOut' = checkedOut - 1

\* Variant: client.release() follows ROLLBACK inside the catch instead of
\* standing in a finally, so a failing ROLLBACK skips it.
RollbackFailsNoRelease(c) ==
  /\ sb[c].pc = "rollback"
  /\ sb' = [sb EXCEPT ![c] = [Settled("rejected") EXCEPT !.acquired = sb[c].acquired,
                                                         !.released = sb[c].released,
                                                         !.error = "rollback"]]
  /\ UNCHANGED <<varsLoop, varsAux, checkedOut, varsSync, varsDb, lastBlock, lastTx>>

\* ROLLBACK itself fails (the connection is gone, so the server aborts the
\* transaction): finally releases the client and storeBlock rejects with
\* ROLLBACK's error.
RollbackFails(c) ==
  /\ sb[c].pc = "rollback"
  /\ sb' = [sb EXCEPT ![c] = Release(c, "rejected", "rollback")]
  /\ UNCHANGED <<varsLoop, varsAux, varsSync, varsDb, lastBlock, lastTx>>
  /\ checkedOut' = checkedOut - 1

InitStore ==
  /\ InitSync
  /\ InitAux
  /\ blocks = {}
  /\ transactions = {}
  /\ sb = [c \in Calls |-> NoCall]
  /\ lastBlock = [h \in StoreHeights |-> Null]
  /\ lastTx = [t \in TxIds |-> NoTx]

NextStore ==
  \/ \E c \in Calls, block \in NodeBlocks : StoreBlockCall(c, block)
  \/ \E c \in Calls : ConnectOk(c)
  \/ \E c \in Calls : ConnectFail(c)
  \/ \E c \in Calls : BeginOk(c)
  \/ \E c \in Calls : InsertBlockOk(c)
  \/ \E c \in Calls : FetchTxOk(c)
  \/ \E c \in Calls : InsertTxOk(c)
  \/ \E c \in Calls : CommitOk(c)
  \/ \E c \in Calls : StepFails(c)
  \/ \E c \in Calls : RollbackOk(c)
  \/ \E c \in Calls : RollbackFails(c)

SpecStore == InitStore /\ [][NextStore]_vars

\* ------------------------------------------------------- claims on storeBlock
\* C4: storeBlock is all-or-nothing. The visible tables change only in the
\* step that completes an invocation's COMMIT; a step that fails, and the
\* ROLLBACK after it, leave both tables as they were; an invocation that has
\* entered its catch never commits, and the next invocation of the same slot
\* starts with nothing written.
C4_AllOrNothing ==
  [][\A c \in Calls :
       /\ (sb'[c] # sb[c] /\ sb'[c].pc \in {"rollback", "rejected"}) =>
            (blocks' = blocks /\ transactions' = transactions)
       /\ sb[c].pc = "rollback" => sb'[c].pc \in {"rollback", "rejected"}
       /\ (sb[c].pc = "rejected" /\ sb'[c] # sb[c]) =>
            (sb'[c].pc = "connect" /\ sb'[c].wBlocks = {} /\ sb'[c].wTxs = {})
       /\ (sb'[c] # sb[c] /\ ~(sb[c].pc = "commit" /\ sb'[c].pc = "resolved")) =>
            (blocks' = blocks /\ transactions' = transactions)]_vars

\* An invocation is in its catch after a later sub-batch failed: its block
\* row and the rows of an earlier sub-batch are written, and none of them is
\* visible.
C4_Witness ==
  \E c \in Calls :
    /\ sb[c].pc = "rollback"
    /\ sb[c].i > 0
    /\ sb[c].wBlocks # {}
    /\ sb[c].wTxs # {}
    /\ ~HasBlock(blocks, sb[c].block.height)
    /\ transactions = {}

\* C5: however often and however interleaved a height is ingested, the blocks
\* table has exactly one row for each ingested height and the transactions
\* table exactly one row for each ingested transaction id, with the fields of
\* the last committed ingestion; nothing else is in the tables.
C5_Idempotent ==
  /\ \A h \in StoreHeights :
       LET rows == {r \in blocks : r.height = h}
       IN IF lastBlock[h] = Null THEN rows = {}
          ELSE rows = {[height |-> h, hash |-> lastBlock[h]]}
  /\ \A t \in TxIds :
       LET rows == {r \in transactions : r.txid = t}
       IN IF lastTx[t] = NoTx THEN rows = {}
          ELSE rows = {[txid |-> t, block_height |-> lastTx[t].height,
                        status |-> IF lastTx[t].status = "Processing" THEN 0 ELSE 1]}
  /\ \A r \in blocks : r.height \in StoreHeights
  /\ \A r \in transactions : r.txid \in TxIds

\* A height already committed with its transactions is being ingested again
\* by two overlapping invocations that carry other field values: one holds
\* the block row, the other waits for it.
C5_Witness ==
  \E c \in Calls, d \in Calls :
    /\ c # d
    /\ sb[c].pc = "commit"
    /\ sb[d].pc = "insertBlock"
    /\ sb[c].block.height = sb[d].block.height
    /\ sb[c].block.hash # sb[d].block.hash
    /\ sb[c].wTxs # {}
    /\ \E r \in blocks : r.height = sb[c].block.height /\ r.hash # sb[c].block.hash
    /\ \E r \in transactions : r.block_height = sb[c].block.height

\* C6: every visible Transaction row's block_height is the height of a
\* visible Block row.
C6_ParentVisible ==
  \A r \in transactions : HasBlock(blocks, r.block_height)

\* Transactions committed under one height have been re-committed under
\* another, while a further invocation has written rows not yet visible.
C6_Witness ==
  /\ \E r \in transactions : r.block_height = 1
  /\ \E r \in blocks : r.height = 0
  /\ \A r \in transactions : r.block_height # 0
  /\ \E c \in Calls : sb[c].pc = "insertTx" /\ sb[c].wTxs # {} /\ sb[c].block.height = 0

\* ------------------------------------------------------ the pool (SpecPool)
\* Startup followed by the storeBlock invocations of the rounds: the clients
\* checked out of the pool over the life of the process.
\* The blocks stored in SpecPool: one height, with and without transactions.
PoolBlocks == {block \in NodeBlocks : block.height = 0 /\ block.hash = 1}

InitPool ==
  /\ pc = "connect"
  /\ currentBlockHeight = 0
  /\ latestBlockHeight = 0
  /\ batchPromises = <<>>
  /\ tasks = NoTasks
  /\ stragglers = {}
  /\ timerDelay = 0
  /\ isReady = "unset"
  /\ armedTimers = 0
  /\ activeSyncs = 0
  /\ InitAux
  /\ blocks = {}
  /\ transactions = {}
  /\ sb = [c \in Calls |-> NoCall]
  /\ lastBlock = [h \in StoreHeights |-> Null]
  /\ lastTx = [t \in TxIds |-> NoTx]

\* The steps of the storeBlock invocations; they are made by processBlock
\* calls, which exist once syncBlocks has been started.
PoolStoreStep ==
  \/ \E c \in Calls, block \in PoolBlocks : StoreBlockCall(c, block)
  \/ \E c \in Calls : ConnectOk(c)
  \/ \E c \in Calls : ConnectFail(c)
  \/ \E c \in Calls : BeginOk(c)
  \/ \E c \in Calls : InsertBlockOk(c)
  \/ \E c \in Calls : FetchTxOk(c)
  \/ \E c \in Calls : InsertTxOk(c)
  \/ \E c \in Calls : CommitOk(c)
  \/ \E c \in Calls : StepFails(c)
  \/ \E c \in Calls : RollbackOk(c)
  \/ \E c \in Calls : RollbackFails(c)

NextPool ==
  \/ NextStartup
  \/ pc = "isNodeReady" /\ PoolStoreStep

SpecPool == InitPool /\ [][NextPool]_vars

\* The storeBlock invocations inside their transaction.
Storing == {c \in Calls : InTransaction(c)}

\* C22 as stated: the clients checked out of the pool are exactly those of
\* the storeBlock invocations inside their transaction, so with no block
\* being stored none is checked out and PoolMax connections are available.
C22_Original ==
  /\ checkedOut = Cardinality(Storing)
  /\ Storing = {} => PoolMax - checkedOut = PoolMax

\* Transaction ids at positions from + 1 .. to of a block's list.
IdsAt(block, from, to) ==
  {block.transactions[k] : k \in {j \in DOMAIN block.transactions : j > from /\ j <= to}}

\* C16: an invocation holds no connection before pool.connect() resolves,
\* holds exactly the one it acquired, unreleased, from BEGIN to the end of
\* COMMIT or ROLLBACK, and has released it exactly once when it has settled:
\* resolved after COMMIT, rejected after ROLLBACK, rejected after a failed
\* ROLLBACK; an invocation whose pool.connect() rejected never held one.
C16_ReleaseOnce ==
  \A c \in Calls :
    /\ sb[c].acquired \in {0, 1}
    /\ sb[c].released \in {0, 1}
    /\ sb[c].pc \in {"idle", "connect"} => (sb[c].acquired = 0 /\ sb[c].released = 0)
    /\ InTransaction(c) => (sb[c].acquired = 1 /\ sb[c].released = 0)
    /\ sb[c].pc = "resolved" =>
         (sb[c].acquired = 1 /\ sb[c].released = 1 /\ sb[c].error = "none")
    /\ sb[c].pc = "rejected" =>
         /\ sb[c].error \in {"connect", "step", "rollback"}
         /\ sb[c].error = "connect" => (sb[c].acquired = 0 /\ sb[c].released = 0)
         /\ sb[c].error \in {"step", "rollback"} => (sb[c].acquired = 1 /\ sb[c].released = 1)

\* One invocation has rejected because its ROLLBACK failed, with its client
\* released, while the other is inside its transaction holding its own.
C16_Witness ==
  \E c \in Calls, d \in Calls :
    /\ sb[c].pc = "rejected"
    /\ sb[c].error = "rollback"
    /\ sb[c].released = 1
    /\ sb[d].pc = "insertTx"
    /\ sb[d].acquired = 1
    /\ sb[d].released = 0

\* C19: the status written for a transaction is 0 when the node reported
\* 'Processing' for it and 1 when it reported anything else, in the rows an
\* invocation has written and in the rows that are visible; the mapping gives
\* 0 for 'Processing' alone among the remote values.
C19_StatusMapping ==
  /\ \A remote \in RemoteStatusValues :
       /\ StoredStatus(remote) \in {0, 1}
       /\ (StoredStatus(remote) = 0) = (remote = "Processing")
  /\ \A c \in Calls : \A r \in sb[c].wTxs :
       /\ r.status \in {0, 1}
       /\ (r.status = 0) = (RemoteStatus(sb[c].block.hash) = "Processing")
  /\ \A r \in transactions :
       /\ r.status \in {0, 1}
       /\ (r.status = 0) = (lastTx[r.txid].status = "Processing")

\* Rows stored as 0 are visible while an invocation has written rows stored
\* as 1 for transactions the node no longer reports as 'Processing'.
C19_Witness ==
  /\ \E r \in transactions : r.status = 0 /\ lastTx[r.txid].status = "Processing"
  /\ \E c \in Calls :
       /\ RemoteStatus(sb[c].block.hash) = "Processed"
       /\ \E r \in sb[c].wTxs : r.status = 1

\* C20: within an invocation the sub-batch in flight is the next
\* ModelSubBatch ids of the list (fewer at its end), it is started only when
\* every id before it has been fetched and its row written and no fetched
\* result is waiting to be written, no id is fetched or written twice, and
\* an invocation that reaches COMMIT has fetched and written every id of
\* the list exactly once and nothing else.
C20_SubBatches ==
  \A c \in Calls :
    LET s == sb[c]
        n == Len(s.block.transactions)
    IN /\ Cardinality(s.pendingTx) <= ModelSubBatch
       /\ s.pendingTx # {} => s.pc \in {"fetchTx", "rollback"}
       /\ s.pc = "fetchTx" =>
            /\ s.i % ModelSubBatch = 0
            /\ s.i < n
            /\ s.pendingTx = IdsAt(s.block, s.i, s.i + ModelSubBatch)
            /\ s.txResults = {}
            /\ {r.txid : r \in s.wTxs} = IdsAt(s.block, 0, s.i)
            /\ \A t \in TxIds :
                 /\ s.writeCount[t] = IF t \in IdsAt(s.block, 0, s.i) THEN 1 ELSE 0
                 /\ s.fetchCount[t] =
                      IF t \in IdsAt(s.block, 0, s.i + ModelSubBatch) THEN 1 ELSE 0
       /\ \A t \in TxIds : s.fetchCount[t] <= 1 /\ s.writeCount[t] <= s.fetchCount[t]
       /\ s.pc = "commit" =>
            /\ s.pendingTx = {}
            /\ s.txResults = {}
            /\ \A t \in TxIds :
                 /\ s.fetchCount[t] = IF t \in Range(s.block.transactions) THEN 1 ELSE 0
                 /\ s.writeCount[t] = s.fetchCount[t]
            /\ {r.txid : r \in s.wTxs} = Range(s.block.transactions)

\* The second sub-batch of an invocation is in flight, the first written.
C20_Witness ==
  \E c \in Calls :
    /\ sb[c].pc = "fetchTx"
    /\ sb[c].i = ModelSubBatch
    /\ Cardinality(sb[c].wTxs) = ModelSubBatch
    /\ sb[c].pendingTx # {}
    /\ \A t \in sb[c].pendingTx : sb[c].fetchCount[t] = 1 /\ sb[c].writeCount[t] = 0

====
